---- MODULE Spec2Model ----
(***************************************************************************)
(* Ledger of the veterinary cash register: Day and Entry rows, the daily   *)
(* summaries of models.py (Day.total_por_pago, Day.total_por_categoria,    *)
(* Day.total_dia) and the monthly statistics of app.py (get_month_stats).  *)
(*                                                                         *)
(* Dates are records [y, m, d].  Columns of Day and Entry that no summary  *)
(* reads (doctor, descripcion, peso, especie, created_at) are left out.    *)
(* The requests of app.py that write the ledger and the catalog go through *)
(* safe_db_operation; whether the database carries the operation out is an *)
(* input of each such request (db_ok).                                     *)
(***************************************************************************)
EXTENDS Integers, Sequences, FiniteSets, TLC

VARIABLES
    days,         \* table "days": set of rows [id, fecha, apertura_caja, cierre_caja]
    entries,      \* table "entries": rows [id, day_id, categoria, monto, tipo_pago,
                  \*   tutor, mascota], a sequence in ascending id
    nextDayId,    \* next value of days.id
    nextEntryId,  \* next value of entries.id
    catalog,      \* table "catalog_items": set of rows [id, categoria, nombre, precio]
    nextItemId,   \* next value of catalog_items.id
    session,      \* the session of the client: [user_id], Empty when there is none
    resp          \* what the last request answered

vars == <<days, entries, nextDayId, nextEntryId, catalog, nextItemId, session, resp>>

\* the three tables and their id counters
store == <<days, entries, nextDayId, nextEntryId, catalog, nextItemId>>

\* SQL NULL / Python None in a text column
NULL == "NULL"
\* None where a date is expected
NoDate == [y |-> 0, m |-> 0, d |-> 0]
\* an integer form field or nullable integer column: << >> when there is no
\* value, <<n>> for the value n
Empty == << >>

\* the session of a client that is signed in as user 1, and the empty session
SignedIn == [user_id |-> <<1>>]
Anonymous == [user_id |-> Empty]

----------------------------------------------------------------------------
\* Bounds of the model

MaxDays == 2
MaxEntries == 2
MaxMonthDays == 6
MaxItems == 2

----------------------------------------------------------------------------
\* Fixed enumerations

\* keys of the dict literal in Day.total_por_pago / get_month_stats
PaymentKeys == {"DEBITO/CREDITO", "EFECTIVO", "TRANSFERENCIA"}

\* values of Category
CategoryKeys == {"ATENCION", "PROCEDIMIENTO", "FARMACIA", "EXAMEN", "PELUQUERIA"}

\* PAYMENT_CHOICES / CATEGORY_CHOICES of forms.py (the accepted select values)
PAYMENT_CHOICES == {"DEBITO/CREDITO", "EFECTIVO", "TRANSFERENCIA"}
CATEGORY_CHOICES == {"ATENCION", "PROCEDIMIENTO", "FARMACIA", "EXAMEN", "PELUQUERIA"}

----------------------------------------------------------------------------
\* Generic helpers

Min(a, b) == IF a <= b THEN a ELSE b

\* a // b: the quotient rounded down
IntDiv_floor(a, b) == a \div b

\* Python's int(a / b) for b > 0: the quotient truncated toward zero
IntDiv(a, b) == IF a >= 0 THEN a \div b ELSE -((-a) \div b)

RECURSIVE PermSeqs(_)
\* every order in which the rows of an unordered result set can come back
PermSeqs(S) ==
    IF S = {} THEN {<< >>}
    ELSE UNION {{<<x>> \o p : p \in PermSeqs(S \ {x})} : x \in S}

\* Python's sum() over a list of integers
RECURSIVE SumSeq(_)
SumSeq(s) == IF s = << >> THEN 0 ELSE Head(s) + SumSeq(Tail(s))

----------------------------------------------------------------------------
\* Dates

Date(y, m, d) == [y |-> y, m |-> m, d |-> d]

\* calendar.isleap
IsLeap(y) == y % 4 = 0 /\ (y % 100 # 0 \/ y % 400 = 0)

\* February always 28 days long
MonthRange_noleap(y, m) ==
    IF m = 2 THEN 28
    ELSE IF m \in {4, 6, 9, 11} THEN 30 ELSE 31

\* calendar.monthrange(year, month)[1]
MonthRange(y, m) ==
    IF m = 2 THEN (IF IsLeap(y) THEN 29 ELSE 28)
    ELSE IF m \in {4, 6, 9, 11} THEN 30 ELSE 31

\* date.__le__
DateLE(a, b) ==
    \/ a.y < b.y
    \/ a.y = b.y /\ a.m < b.m
    \/ a.y = b.y /\ a.m = b.m /\ a.d <= b.d

\* Day.fecha.between(lo, hi)
Between(f, lo, hi) == DateLE(lo, f) /\ DateLE(f, hi)

----------------------------------------------------------------------------
\* Rows

DayIds == {d.id : d \in days}
DayById(id) == CHOOSE d \in days : d.id = id
EntryIdx == 1..Len(entries)

\* the rows of "entries" whose day_id is the Day's id, by ascending id
DayEntries(id) ==
    LET OfDay(e) == e.day_id = id
    IN  SelectSeq(entries, OfDay)

\* Day.entries, a relationship without order_by: loaded is what the SELECT of
\* the Day's rows returned, all of them, each once, in the order the
\* database chose
EntriesLoaded(id, loaded) ==
    /\ Len(loaded) = Len(DayEntries(id))
    /\ {loaded[n] : n \in 1..Len(loaded)} =
           {DayEntries(id)[n] : n \in 1..Len(DayEntries(id))}

----------------------------------------------------------------------------
\* Daily summaries (models.py)

\* tot[e.tipo_pago] = e.monto instead of +=: each key keeps its last amount
total_por_pago_assign(id) ==
    LET es == DayEntries(id)
        Last(k) == CHOOSE n \in 1..Len(es) :
                      /\ es[n].tipo_pago = k
                      /\ \A q \in 1..Len(es) : es[q].tipo_pago = k => q <= n
    IN  [ok |-> \A n \in 1..Len(es) : es[n].tipo_pago \in PaymentKeys,
         tot |-> [k \in PaymentKeys |->
                    IF \E n \in 1..Len(es) : es[n].tipo_pago = k
                    THEN es[Last(k)].monto ELSE 0]]

\* the day total taken as the number of entries instead of their amounts
total_dia_count(id) == Len(DayEntries(id))

RECURSIVE TotLoopPago(_, _)
\* the loop of Day.total_por_pago: tot[e.tipo_pago] += e.monto, a KeyError
\* when the key is not in the dict
TotLoopPago(es, tot) ==
    IF es = << >> THEN [ok |-> TRUE, tot |-> tot]
    ELSE LET e == Head(es)
         IN  IF e.tipo_pago \notin DOMAIN tot
             THEN [ok |-> FALSE, tot |-> tot]
             ELSE TotLoopPago(Tail(es),
                      [tot EXCEPT ![e.tipo_pago] = @ + e.monto])

total_por_pago(id) ==
    TotLoopPago(DayEntries(id), [k \in PaymentKeys |-> 0])

RECURSIVE TotLoopCat(_, _)
\* the loop of Day.total_por_categoria
TotLoopCat(es, tot) ==
    IF es = << >> THEN [ok |-> TRUE, tot |-> tot]
    ELSE LET e == Head(es)
         IN  IF e.categoria \notin DOMAIN tot
             THEN [ok |-> FALSE, tot |-> tot]
             ELSE TotLoopCat(Tail(es),
                      [tot EXCEPT ![e.categoria] = @ + e.monto])

total_por_categoria(id) ==
    TotLoopCat(DayEntries(id), [c \in CategoryKeys |-> 0])

total_dia(id) ==
    LET es == DayEntries(id)
    IN  SumSeq([i \in 1..Len(es) |-> es[i].monto])

----------------------------------------------------------------------------
\* Monthly statistics (app.py, get_month_stats)

\* month_start / month_end
MonthStart(year, month) == Date(year, month, 1)
MonthEnd(year, month) == Date(year, month, MonthRange(year, month))

\* the join without its date filter
ScopeIdx_nofilter(year, month) ==
    {i \in EntryIdx : \E d \in days : d.id = entries[i].day_id}

\* Entry JOIN Day ON Entry.day_id = Day.id WHERE Day.fecha BETWEEN month_start
\* AND month_end: the positions of the joined entries
ScopeIdx(year, month) ==
    {i \in EntryIdx :
        \E d \in days :
            /\ d.id = entries[i].day_id
            /\ Between(d.fecha, MonthStart(year, month), MonthEnd(year, month))}

RECURSIVE SqlSum(_)
\* func.coalesce(func.sum(Entry.monto), 0) over a group of joined rows
SqlSum(I) ==
    IF I = {} THEN 0
    ELSE LET i == CHOOSE j \in I : TRUE
         IN  entries[i].monto + SqlSum(I \ {i})

\* func.count(Entry.id) in place of func.sum(Entry.monto)
PagosRaw_count(year, month) ==
    LET I == ScopeIdx(year, month)
    IN  {<<t, Cardinality({i \in I : entries[i].tipo_pago = t})>> :
            t \in {entries[i].tipo_pago : i \in I}}

\* pagos_raw: one row (tipo_pago, sum) per tipo_pago present in scope
PagosRaw(year, month) ==
    LET I == ScopeIdx(year, month)
    IN  {<<t, SqlSum({i \in I : entries[i].tipo_pago = t})>> :
            t \in {entries[i].tipo_pago : i \in I}}

\* cats_raw: one row (categoria, sum) per categoria present in scope
CatsRaw(year, month) ==
    LET I == ScopeIdx(year, month)
    IN  {<<c, SqlSum({i \in I : entries[i].categoria = c})>> :
            c \in {entries[i].categoria : i \in I}}

\* cats_count_raw: one row (categoria, count) per categoria present in scope
CatsCountRaw(year, month) ==
    LET I == ScopeIdx(year, month)
    IN  {<<c, Cardinality({i \in I : entries[i].categoria = c})>> :
            c \in {entries[i].categoria : i \in I}}

\* for key, value in rows: if key in dict: dict[key] = int(value or 0)
FillKnown(keys, rows) ==
    [k \in keys |->
        IF \E r \in rows : r[1] = k
        THEN (CHOOSE r \in rows : r[1] = k)[2]
        ELSE 0]

\* count(distinct Entry.day_id) in place of count(Entry.id)
TxCount_distinct(year, month) ==
    Cardinality({entries[i].day_id : i \in ScopeIdx(year, month)})

\* tx_count: count(Entry.id) over the join
TxCount(year, month) == Cardinality(ScopeIdx(year, month))

\* count(Day.id) over the Days of the month, without the join to Entry
DiasConMov_days(year, month) ==
    Cardinality({d \in days :
        Between(d.fecha, MonthStart(year, month), MonthEnd(year, month))})

\* dias_con_mov: count(distinct Day.id) over Day JOIN Entry
DiasConMov(year, month) ==
    Cardinality({entries[i].day_id : i \in ScopeIdx(year, month)})

\* sumas_por_dia before ordering: one row (fecha, sum) per Day.fecha of the join
SumasPorDia(year, month) ==
    LET I == ScopeIdx(year, month)
        FechaOf(i) == DayById(entries[i].day_id).fecha
    IN  {<<f, SqlSum({i \in I : FechaOf(i) = f})>> :
            f \in {FechaOf(i) : i \in I}}

RECURSIVE InsertDesc(_, _)
\* place row x behind every row whose total is >= its own (stable, descending)
InsertDesc(x, s) ==
    IF s = << >> THEN <<x>>
    ELSE IF Head(s)[2] >= x[2] THEN <<Head(s)>> \o InsertDesc(x, Tail(s))
    ELSE <<x>> \o s

RECURSIVE SortedDesc(_, _)
\* sorted(rows, key=lambda x: x[1], reverse=True): equal totals keep their order
SortedDesc(rows, acc) ==
    IF rows = << >> THEN acc
    ELSE SortedDesc(Tail(rows), InsertDesc(Head(rows), acc))

\* the sort without reverse=True: ascending totals
Top5_asc(rows) ==
    LET Neg(r) == <<r[1], -r[2]>>
        s == SortedDesc([n \in 1..Len(rows) |-> Neg(rows[n])], << >>)
    IN  [n \in 1..Min(5, Len(s)) |-> Neg(s[n])]

\* sorted(...)[:5]
Top5(rows) ==
    LET s == SortedDesc(rows, << >>)
    IN  SubSeq(s, 1, Min(5, Len(s)))

\* The query of sumas_por_dia has no ORDER BY: its rows can come back in any
\* order, and top5 is the sorted head of whichever order it was.
Top5s(S) == {Top5(rows) : rows \in PermSeqs(S)}

\* 100 * v / total_general if total_general else 0.0, kept as an exact fraction
Part(v, total) ==
    IF total # 0 THEN [num |-> 100 * v, den |-> total]
    ELSE [num |-> 0, den |-> 1]

\* int(total / count) if count else 0
Promedio(total, count) == IF count # 0 THEN IntDiv(total, count) ELSE 0

\* float formatting that cuts after the first decimal instead of rounding
pct_trunc(n) ==
    LET a == IF n.num < 0 THEN -n.num ELSE n.num
        b == IF n.den < 0 THEN -n.den ELSE n.den
        q == (10 * a) \div b
    IN  {[neg |-> (n.num < 0) # (n.den < 0), whole |-> q \div 10, tenth |-> q % 10]}

\* the template filter pct: f"{float(n):.1f}%" of a share n = num / den, as the
\* set of texts [neg, whole, tenth] ("-", digits, decimal) it can show.  The
\* float nearest to the share is rounded to one decimal, an exact tie going to
\* the even decimal; a decimal tie that has no exact binary form (66.65) falls
\* to the side its float lies on, which is left open here: both neighbours.
pct(n) ==
    LET a == IF n.num < 0 THEN -n.num ELSE n.num
        b == IF n.den < 0 THEN -n.den ELSE n.den
        neg == IF n.num = 0 THEN n.den < 0 ELSE (n.num < 0) # (n.den < 0)
        q == (10 * a) \div b
        r == (10 * a) % b
        Text(t) == [neg |-> neg, whole |-> t \div 10, tenth |-> t % 10]
    IN  IF 2 * r < b THEN {Text(q)}
        ELSE IF 2 * r > b THEN {Text(q + 1)}
        ELSE IF (2 * q + 1) % 5 = 0 THEN {Text(IF q % 2 = 0 THEN q ELSE q + 1)}
        ELSE {Text(q), Text(q + 1)}

\* every month number taken as it comes
MonthValid_any(year, month) == TRUE

\* pycal.monthrange(year, month) raises IllegalMonthError unless 1 <= month <=
\* 12, and date(year, month, 1) raises ValueError unless 1 <= year <= 9999
MonthValid(year, month) == month \in 1..12 /\ year \in 1..9999

\* the peak taken from the last element of top5
Peak_last(top5) == IF top5 # << >> THEN top5[Len(top5)] ELSE <<NoDate, 0>>

\* peak_day = top5[0][0] if top5 else None; peak_total = top5[0][1] if top5
\* else 0
Peak(top5) == IF top5 # << >> THEN top5[1] ELSE <<NoDate, 0>>

\* get_month_stats(year, month); top5 is the sorted head of sumas_por_dia for
\* the order the database returned it in
get_month_stats(year, month, top5) ==
    IF ~MonthValid(year, month)
    THEN [ok |-> FALSE]
    ELSE
    LET tot_por_pago == FillKnown(PaymentKeys, PagosRaw(year, month))
        tot_por_cat == FillKnown(CategoryKeys, CatsRaw(year, month))
        total_general == tot_por_pago["DEBITO/CREDITO"] + tot_por_pago["EFECTIVO"]
                           + tot_por_pago["TRANSFERENCIA"]
        tx_count == TxCount(year, month)
        dias_con_mov == DiasConMov(year, month)
        count_por_cat == FillKnown(CategoryKeys, CatsCountRaw(year, month))
    IN  [ok |-> TRUE,
         month_start |-> MonthStart(year, month),
         month_end |-> MonthEnd(year, month),
         tot_por_pago |-> tot_por_pago,
         tot_por_cat |-> tot_por_cat,
         total_general |-> total_general,
         tx_count |-> tx_count,
         dias_con_mov |-> dias_con_mov,
         promedio_diario |-> Promedio(total_general, dias_con_mov),
         top5 |-> top5,
         peak_day |-> Peak(top5)[1],
         peak_total |-> Peak(top5)[2],
         ticket_promedio |-> Promedio(total_general, tx_count),
         ticket_promedio_cat |->
             [c \in CategoryKeys |-> Promedio(tot_por_cat[c], count_por_cat[c])],
         part_pago |-> [k \in PaymentKeys |-> Part(tot_por_pago[k], total_general)],
         part_cat |-> [c \in CategoryKeys |-> Part(tot_por_cat[c], total_general)]]

----------------------------------------------------------------------------
\* Requests and their inputs

\* str.strip() on the texts the submissions use
Strip(s) ==
    CASE s = " Ana " -> "Ana"
      [] s = " Rex " -> "Rex"
      [] s = " Vacuna " -> "Vacuna"
      [] s = " " -> ""
      [] OTHER -> s

\* str.upper() on the texts the submissions use
Upper(s) ==
    CASE s = "atencion" -> "ATENCION"
      [] s = "Vacuna" -> "VACUNA"
      [] s = "vacuna" -> "VACUNA"
      [] OTHER -> s

\* x or "" / x or 0
OrEmpty(x) == IF x = NULL THEN "" ELSE x
OrZero(x) == IF x = Empty THEN 0 ELSE x[1]

\* flash(message, category) on the way to the response
WithFlash(r, category, message) ==
    [flash |-> [category |-> category, message |-> message]] @@ r

\* the exception of an operation: none, or the one the database raises when
\* it cannot carry the operation out
NoError == ""
DbError(db_ok) == IF db_ok THEN NoError ELSE "OperationalError"

\* the changes of the operation kept although it failed: no rollback
safe_db_operation_norollback(raised, operation, success_message, error_message, done, failed) ==
    /\ operation
    /\ UNCHANGED session /\ resp' = IF raised = NoError THEN WithFlash(done, "success", success_message)
               ELSE WithFlash(failed, "danger", <<error_message, raised>>)

\* safe_db_operation(operation_func, success_message, error_message) and what
\* its caller answers: when operation_func and the commit raise nothing the
\* changes are committed, the success message is flashed and the caller
\* answers done; when either raises, the session is rolled back, the error is
\* flashed (error_message and the text of the exception), False is returned
\* and the caller answers failed
safe_db_operation(raised, operation, success_message, error_message, done, failed) ==
    IF raised = NoError
    THEN /\ operation
         /\ UNCHANGED session /\ resp' = WithFlash(done, "success", success_message)
    ELSE /\ UNCHANGED store
         /\ UNCHANGED session /\ resp' = WithFlash(failed, "danger", <<error_message, raised>>)

\* DayForm.validate: fecha required, the two balances optional and >= 0
DayFormValid(f) ==
    /\ f.fecha # NoDate
    /\ f.apertura_caja = Empty \/ f.apertura_caja[1] >= 0
    /\ f.cierre_caja = Empty \/ f.cierre_caja[1] >= 0

\* no check of the date against the other Days
FechaUnique_off(id, fecha) == TRUE

\* days.fecha is UNIQUE: the row id may carry fecha when no other row does
FechaUnique(id, fecha) == \A d \in days : d.id # id => d.fecha # fecha

ItemIds == {i.id : i \in catalog}
ItemById(id) == CHOOSE i \in catalog : i.id = id

\* form.servicio.choices: the ids of the catalog items of the posted category
ServicioChoices(f) == {i.id : i \in {x \in catalog : x.categoria = Upper(f.categoria)}}

\* day_detail, POST with a catalog item chosen: the item's price becomes the
\* amount when no amount, or 0, was sent
Prefilled(f) ==
    IF /\ f.servicio # Empty
       /\ f.servicio[1] \in ItemIds
       /\ (f.monto = Empty \/ f.monto[1] = 0)
    THEN [f EXCEPT !.monto = <<OrZero(ItemById(f.servicio[1]).precio)>>]
    ELSE f

\* the form without NumberRange(min=0) on monto
EntryFormValid_norange(f) ==
    /\ f.categoria \in CATEGORY_CHOICES
    /\ f.tipo_pago \in PAYMENT_CHOICES
    /\ f.servicio = Empty \/ f.servicio[1] \in ServicioChoices(f)
    /\ f.monto # Empty /\ f.monto[1] # 0

\* EntryForm.validate: both selects must be one of their choices, servicio is
\* optional and otherwise one of its choices, monto is DataRequired (a falsy 0
\* fails) and NumberRange(min=0)
EntryFormValid(f) ==
    /\ f.categoria \in CATEGORY_CHOICES
    /\ f.tipo_pago \in PAYMENT_CHOICES
    /\ f.servicio = Empty \/ f.servicio[1] \in ServicioChoices(f)
    /\ f.monto # Empty /\ f.monto[1] # 0
    /\ f.monto[1] >= 0

\* CatalogItemForm.validate: categoria one of its choices, nombre required,
\* precio optional and >= 0
CatalogItemFormValid(f) ==
    /\ f.categoria \in CATEGORY_CHOICES
    /\ Strip(f.nombre) # ""
    /\ f.precio = Empty \/ f.precio[1] >= 0

NotFound == [kind |-> "not_found", status |-> 404]
ServerError(e) == [kind |-> "error", status |-> 500, error |-> e]
Redirect(to, id) == [kind |-> "redirect", status |-> 302, to |-> to, id |-> id]
DayEditForm == [kind |-> "day_edit_form", status |-> 200]
CatalogForm == [kind |-> "catalog_form", status |-> 200]

\* the rows counted and summed over the entries that share the coalesced
\* owner and pet, one row per (owner, pet) as stored
GroupRows_coalesced(id) ==
    LET I == {i \in EntryIdx : entries[i].day_id = id}
        KeyOf(i) == <<entries[i].tutor, entries[i].mascota>>
        Norm(k) == <<OrEmpty(k[1]), OrEmpty(k[2])>>
    IN  {[key |-> k,
          tutor |-> OrEmpty(k[1]),
          mascota |-> OrEmpty(k[2]),
          count |-> Cardinality({i \in I : Norm(KeyOf(i)) = Norm(k)}),
          total |-> SqlSum({i \in I : Norm(KeyOf(i)) = Norm(k)})] :
              k \in {KeyOf(i) : i \in I}}

\* the grouping query of day_detail: GROUP BY Entry.tutor, Entry.mascota, the
\* selected columns coalesced to ""; one row per group
GroupRows(id) ==
    LET I == {i \in EntryIdx : entries[i].day_id = id}
        KeyOf(i) == <<entries[i].tutor, entries[i].mascota>>
    IN  {[key |-> k,
          tutor |-> OrEmpty(k[1]),
          mascota |-> OrEmpty(k[2]),
          count |-> Cardinality({i \in I : KeyOf(i) = k}),
          total |-> SqlSum({i \in I : KeyOf(i) = k})] : k \in {KeyOf(i) : i \in I}}

\* patient_groups: the dicts built from the rows, in the order they came back
PatientGroups(rows) ==
    [n \in 1..Len(rows) |->
        [tutor |-> rows[n].tutor, mascota |-> rows[n].mascota,
         count |-> rows[n].count, total |-> rows[n].total]]

\* the part of day_detail after the form: the two summaries and the groups
DayDetailPage(id, rows) ==
    LET tot_pago == total_por_pago(id)
        tot_cat == total_por_categoria(id)
    IN  IF ~tot_pago.ok \/ ~tot_cat.ok THEN ServerError("KeyError")
        ELSE [kind |-> "day_detail", status |-> 200, day_id |-> id,
              tot_pago |-> tot_pago.tot, tot_cat |-> tot_cat.tot,
              patient_groups |-> PatientGroups(rows)]

----------------------------------------------------------------------------
\* The paginated documents.  Lengths are in units of 1/127 pt, in which the
\* A4 page height of 297 mm = 297 * 72 / 25.4 pt is a whole number.

\* height of A4
A4Height == 106920

\* n points
Pt(n) == 127 * n

RECURSIVE DrawRows_nobreak(_, _, _, _)
\* the loop without its page break: every row 14 pt below the one before
DrawRows_nobreak(items, y, page, acc) ==
    IF items = << >> THEN acc
    ELSE DrawRows_nobreak(Tail(items), y - Pt(14), page,
             Append(acc, [id |-> Head(items).id, page |-> page, y |-> y]))

RECURSIVE DrawRows(_, _, _, _)
\* for e in items: if y < 60: c.showPage(); y = height - 40 / draw the row
\* at y / y -= 14.  The rows drawn: [id, page, y].
DrawRows(items, y, page, acc) ==
    IF items = << >> THEN acc
    ELSE LET brk == y < Pt(60)
             y1 == IF brk THEN A4Height - Pt(40) ELSE y
             p1 == IF brk THEN page + 1 ELSE page
         IN  DrawRows(Tail(items), y1 - Pt(14), p1,
                 Append(acc, [id |-> Head(items).id, page |-> p1, y |-> y1]))

\* the cursor below the headings of the table of day_report_pdf, which opens
\* a page of its own, and below the headings of day_patient_pdf
ReportTableTop == A4Height - Pt(40) - Pt(22) - Pt(14)
PatientTableTop == A4Height - Pt(40) - Pt(18) - Pt(14) - Pt(14) - Pt(20) - Pt(14)

\* items of day_patient_pdf: the Day's entries, filtered by the owner and the
\* pet when given, by ascending id
PatientItems(id, tutor, mascota) ==
    LET Match(e) == /\ tutor = "" \/ OrEmpty(e.tutor) = tutor
                    /\ mascota = "" \/ OrEmpty(e.mascota) = mascota
    IN  SelectSeq(DayEntries(id), Match)

----------------------------------------------------------------------------
\* The choice of the database (config.py).  A variable of the environment is
\* Empty when it is not set and <<value>> when it is; a URL is the record of
\* its scheme (the text before "://") and of the parts that follow it, and
\* the empty string is the URL with both empty.

Url(scheme, rest) == [scheme |-> scheme, rest |-> rest]

\* truth of os.getenv(name) in Python: set, and not the empty string
Truthy(v) == v # Empty /\ v[1] # ""
TruthyUrl(v) == v # Empty /\ v[1] # Url("", << >>)

\* url.replace("postgres://", "postgresql+psycopg2://", 1) when the url
\* starts with "postgres://"
normalize_db_url(url) ==
    IF url # Url("", << >>) /\ url.scheme = "postgres"
    THEN Url("postgresql+psycopg2", url.rest)
    ELSE url

is_render_environment(env) == Truthy(env.RENDER) \/ Truthy(env.RENDER_SERVICE_ID)

\* os.getenv("RUNTIME_DB_DIR", "/tmp/vetcashflow")
RUNTIME_DB_DIR(env) ==
    IF env.RUNTIME_DB_DIR = Empty THEN "/tmp/vetcashflow" ELSE env.RUNTIME_DB_DIR[1]

DEFAULT_SQLITE(env) == Url("sqlite", <<"/", RUNTIME_DB_DIR(env), "app.db">>)

\* _get_database_uri: [raised, uri]
get_database_uri(env) ==
    IF is_render_environment(env)
    THEN IF ~TruthyUrl(env.DATABASE_URL)
         THEN [raised |-> "RuntimeError", uri |-> Url("", << >>)]
         ELSE [raised |-> NoError, uri |-> normalize_db_url(env.DATABASE_URL[1])]
    ELSE [raised |-> NoError,
          uri |-> normalize_db_url(IF TruthyUrl(env.DATABASE_URL) THEN env.DATABASE_URL[1]
                                   ELSE DEFAULT_SQLITE(env))]

----------------------------------------------------------------------------
\* Actions

\* class Config: SQLALCHEMY_DATABASE_URI = _get_database_uri(), evaluated when
\* config is imported, under the environment env
Config(env) ==
    /\ UNCHANGED session /\ resp' = [kind |-> "config", environ |-> env,
                raised |-> get_database_uri(env).raised,
                SQLALCHEMY_DATABASE_URI |-> get_database_uri(env).uri]
    /\ UNCHANGED store

\* POST /day/new
day_new(f, db_ok) ==
    IF ~DayFormValid(f)
    THEN /\ UNCHANGED session /\ resp' = DayEditForm
         /\ UNCHANGED store
    ELSE IF \E d \in days : d.fecha = f.fecha
    THEN /\ UNCHANGED session /\ resp' = WithFlash(Redirect("day_detail",
                        (CHOOSE d \in days : d.fecha = f.fecha).id), "warning",
                        "Ya existe un día con esa fecha. Se abrirá para edición.")
         /\ UNCHANGED store
    ELSE LET create_day ==
                 /\ days' = days \cup {[id |-> nextDayId, fecha |-> f.fecha,
                                        apertura_caja |-> OrZero(f.apertura_caja),
                                        cierre_caja |-> OrZero(f.cierre_caja)]}
                 /\ nextDayId' = nextDayId + 1
                 /\ UNCHANGED <<entries, nextEntryId, catalog, nextItemId>>
         IN  /\ nextDayId <= MaxDays
             /\ safe_db_operation(DbError(db_ok), create_day,
                    "Día creado.", "Error al crear el día",
                    Redirect("day_detail", nextDayId), DayEditForm)

\* GET /day/<id>
day_detail_get(id) ==
    /\ UNCHANGED store
    /\ IF id \notin DayIds THEN UNCHANGED session /\ resp' = NotFound
       ELSE \E rows \in PermSeqs(GroupRows(id)) : UNCHANGED session /\ resp' = DayDetailPage(id, rows)

\* POST /day/<id>
day_detail_post(id, f, db_ok) ==
    IF id \notin DayIds
    THEN /\ UNCHANGED session /\ resp' = NotFound
         /\ UNCHANGED store
    ELSE LET form == Prefilled(f)
             create_entry ==
                 /\ entries' = Append(entries,
                        [id |-> nextEntryId, day_id |-> id,
                         categoria |-> form.categoria, monto |-> form.monto[1],
                         tipo_pago |-> form.tipo_pago,
                         tutor |-> Strip(OrEmpty(form.tutor)),
                         mascota |-> Strip(OrEmpty(form.mascota))])
                 /\ nextEntryId' = nextEntryId + 1
                 /\ UNCHANGED <<days, nextDayId, catalog, nextItemId>>
         IN  IF EntryFormValid(form)
             THEN /\ nextEntryId <= MaxEntries
                  /\ \E rows \in PermSeqs(GroupRows(id)) :
                        safe_db_operation(DbError(db_ok), create_entry,
                            "Registro agregado.", "Error al crear el registro",
                            Redirect("day_detail", id), DayDetailPage(id, rows))
             ELSE /\ \E rows \in PermSeqs(GroupRows(id)) :
                        UNCHANGED session /\ resp' = DayDetailPage(id, rows)
                  /\ UNCHANGED store

\* a closing balance that was already set is kept
ClosingBalance_keep(id) ==
    IF DayById(id).cierre_caja # 0 THEN DayById(id).cierre_caja
    ELSE DayById(id).apertura_caja + total_dia(id)

\* close_day: (day.apertura_caja or 0) + day.total_dia()
ClosingBalance(id) == DayById(id).apertura_caja + total_dia(id)

\* POST /day/<id>/close
day_close(id, db_ok) ==
    IF id \notin DayIds
    THEN /\ UNCHANGED session /\ resp' = NotFound
         /\ UNCHANGED store
    ELSE LET day == DayById(id)
             close_day ==
                 /\ days' = (days \ {day}) \cup
                               {[day EXCEPT !.cierre_caja = ClosingBalance(id)]}
                 /\ UNCHANGED <<entries, nextDayId, nextEntryId, catalog, nextItemId>>
         IN  safe_db_operation(DbError(db_ok), close_day,
                 "Cierre de caja calculado y guardado.", "Error al cerrar el día",
                 Redirect("day_close_confirm", id), Redirect("day_detail", id))

\* POST /day/<id>/edit; the commit fails when another Day has the date
day_edit(id, f, db_ok) ==
    IF id \notin DayIds
    THEN /\ UNCHANGED session /\ resp' = NotFound
         /\ UNCHANGED store
    ELSE IF ~DayFormValid(f)
    THEN /\ UNCHANGED session /\ resp' = DayEditForm
         /\ UNCHANGED store
    ELSE LET day == DayById(id)
             update_day ==
                 /\ days' = (days \ {day}) \cup
                               {[day EXCEPT !.fecha = f.fecha,
                                            !.apertura_caja = OrZero(f.apertura_caja),
                                            !.cierre_caja = OrZero(f.cierre_caja)]}
                 /\ UNCHANGED <<entries, nextDayId, nextEntryId, catalog, nextItemId>>
             raised == IF ~FechaUnique(id, f.fecha) THEN "IntegrityError"
                       ELSE DbError(db_ok)
         IN  safe_db_operation(raised, update_day,
                 "Datos del día actualizados.", "Error al actualizar el día",
                 Redirect("day_detail", id), DayEditForm)

\* the Day's entries left in place when the Day goes
CascadeDelete_none(id) == entries

\* Day.entries, cascade="all, delete-orphan": the entries that remain when
\* the Day is deleted
CascadeDelete(id) ==
    LET Keep(e) == e.day_id # id
    IN  SelectSeq(entries, Keep)

\* db.session.delete(day) and commit: no route of app.py does it; what it does
\* to the entries is the cascade declared on Day.entries
delete_day(id) ==
    /\ id \in DayIds
    /\ days' = days \ {DayById(id)}
    /\ entries' = CascadeDelete(id)
    /\ UNCHANGED session /\ resp' = [kind |-> "day_deleted", day_id |-> id,
                entries |-> Cardinality({i \in EntryIdx : entries[i].day_id = id})]
    /\ UNCHANGED <<nextDayId, nextEntryId, catalog, nextItemId>>

\* GET /day/<id>/report.pdf; loaded is day.entries as the database returned
\* it.  The first page carries the heading and the two blocks of totals; the
\* table of entries, when there is any entry, opens page 2.
day_report_pdf(id, loaded) ==
    /\ UNCHANGED store
    /\ EntriesLoaded(id, loaded)
    /\ IF id \notin DayIds THEN UNCHANGED session /\ resp' = NotFound
       ELSE LET tot_pago == total_por_pago(id)
                tot_cat == total_por_categoria(id)
                es == loaded
                rows == DrawRows(es, ReportTableTop, 2, << >>)
            IN  IF ~tot_pago.ok \/ ~tot_cat.ok THEN UNCHANGED session /\ resp' = ServerError("KeyError")
                ELSE UNCHANGED session /\ resp' = [kind |-> "day_report_pdf", status |-> 200,
                              day_id |-> id,
                              tot_pago |-> tot_pago.tot, tot_cat |-> tot_cat.tot,
                              total_dia |-> total_dia(id),
                              movimientos |-> [n \in 1..Len(es) |-> es[n].id],
                              rows |-> rows,
                              pages |-> IF es = << >> THEN 1
                                        ELSE rows[Len(rows)].page]

\* GET /day/<id>/patient.pdf?tutor=&mascota=
day_patient_pdf(id, tutor, mascota) ==
    /\ UNCHANGED store
    /\ IF id \notin DayIds THEN UNCHANGED session /\ resp' = NotFound
       ELSE LET items == PatientItems(id, Strip(tutor), Strip(mascota))
                rows == DrawRows(items, PatientTableTop, 1, << >>)
            IN  UNCHANGED session /\ resp' = [kind |-> "day_patient_pdf", status |-> 200,
                         day_id |-> id,
                         tutor |-> Strip(tutor), mascota |-> Strip(mascota),
                         total |-> SumSeq([n \in 1..Len(items) |-> items[n].monto]),
                         rows |-> rows,
                         pages |-> IF items = << >> THEN 1
                                   ELSE rows[Len(rows)].page]

\* the closing balance of the Day recomputed when one of its entries goes
delete_entry_reclose(id, db_ok) ==
    /\ \E i \in EntryIdx : entries[i].id = id
    /\ LET Keep(e) == e.id # id
           gone == entries[CHOOSE i \in EntryIdx : entries[i].id = id]
       IN  /\ entries' = SelectSeq(entries, Keep)
           /\ days' = {IF d.id = gone.day_id
                          THEN [d EXCEPT !.cierre_caja =
                                   d.apertura_caja + total_dia(d.id) - gone.monto]
                          ELSE d : d \in days}
           /\ UNCHANGED session /\ resp' = WithFlash(Redirect("day_detail", gone.day_id), "success",
                                "Registro eliminado.")
    /\ UNCHANGED <<nextDayId, nextEntryId, catalog, nextItemId>>

\* POST /entry/<id>/delete
delete_entry(id, db_ok) ==
    IF \A i \in EntryIdx : entries[i].id # id
    THEN /\ UNCHANGED session /\ resp' = NotFound
         /\ UNCHANGED store
    ELSE LET Keep(e) == e.id # id
             pos == CHOOSE i \in EntryIdx : entries[i].id = id
             delete_entry_op ==
                 /\ entries' = SelectSeq(entries, Keep)
                 /\ UNCHANGED <<days, nextDayId, nextEntryId, catalog, nextItemId>>
         IN  safe_db_operation(DbError(db_ok), delete_entry_op,
                 "Registro eliminado.", "Error al eliminar el registro",
                 Redirect("day_detail", entries[pos].day_id),
                 Redirect("day_detail", entries[pos].day_id))

\* POST /catalog/new: an item of the same category and name (case apart) gets
\* the price, otherwise a new item is created; a refused form has its errors
\* flashed (flash_form_errors)
catalog_new(f, db_ok) ==
    IF ~CatalogItemFormValid(f)
    THEN /\ UNCHANGED session /\ resp' = WithFlash(CatalogForm, "danger", "form.errors")
         /\ UNCHANGED store
    ELSE LET Same(i) == /\ Upper(i.categoria) = Upper(f.categoria)
                        /\ Upper(i.nombre) = Upper(Strip(f.nombre))
             exists == CHOOSE i \in catalog : Same(i)
             update_existing ==
                 /\ catalog' = (catalog \ {exists}) \cup
                                  {[exists EXCEPT !.precio = <<OrZero(f.precio)>>]}
                 /\ UNCHANGED <<days, entries, nextDayId, nextEntryId, nextItemId>>
             create_item ==
                 /\ catalog' = catalog \cup
                                  {[id |-> nextItemId, categoria |-> f.categoria,
                                    nombre |-> Strip(f.nombre),
                                    precio |-> <<OrZero(f.precio)>>]}
                 /\ nextItemId' = nextItemId + 1
                 /\ UNCHANGED <<days, entries, nextDayId, nextEntryId>>
         IN  IF \E i \in catalog : Same(i)
             THEN safe_db_operation(DbError(db_ok), update_existing,
                      "Servicio actualizado (ya existía).",
                      "Error al actualizar el servicio existente",
                      Redirect("catalog_list", 0), CatalogForm)
             ELSE /\ nextItemId <= MaxItems
                  /\ safe_db_operation(DbError(db_ok), create_item,
                         "Servicio creado.", "Error al crear el servicio",
                         Redirect("catalog_list", 0), CatalogForm)

\* POST /catalog/<id>/edit
catalog_edit(id, f, db_ok) ==
    IF id \notin ItemIds
    THEN /\ UNCHANGED session /\ resp' = NotFound
         /\ UNCHANGED store
    ELSE IF ~CatalogItemFormValid(f)
    THEN /\ UNCHANGED session /\ resp' = WithFlash(CatalogForm, "danger", "form.errors")
         /\ UNCHANGED store
    ELSE LET item == ItemById(id)
             update_catalog_item ==
                 /\ catalog' = (catalog \ {item}) \cup
                                  {[item EXCEPT !.categoria = f.categoria,
                                               !.nombre = Strip(f.nombre),
                                               !.precio = <<OrZero(f.precio)>>]}
                 /\ UNCHANGED <<days, entries, nextDayId, nextEntryId, nextItemId>>
         IN  safe_db_operation(DbError(db_ok), update_catalog_item,
                 "Servicio actualizado.", "Error al actualizar el servicio",
                 Redirect("catalog_list", 0), CatalogForm)

\* POST /catalog/<id>/delete
catalog_delete(id, db_ok) ==
    IF id \notin ItemIds
    THEN /\ UNCHANGED session /\ resp' = NotFound
         /\ UNCHANGED store
    ELSE LET delete_catalog_item ==
                 /\ catalog' = catalog \ {ItemById(id)}
                 /\ UNCHANGED <<days, entries, nextDayId, nextEntryId, nextItemId>>
         IN  safe_db_operation(DbError(db_ok), delete_catalog_item,
                 "Servicio eliminado.", "Error al eliminar el servicio",
                 Redirect("catalog_list", 0), Redirect("catalog_list", 0))

\* every endpoint served as it is, with or without a session
require_login_open(endpoint, view) == view

\* before_request: the endpoints 'login' and 'static' are served as they
\* are; any other endpoint is served only when session.get("user_id") is
\* truthy, and is answered by a redirect to the login page otherwise, before
\* its view function runs
require_login(endpoint, view) ==
    IF endpoint \in {"login", "static"} THEN view
    ELSE IF OrZero(session.user_id) = 0
         THEN /\ UNCHANGED session /\ resp' = Redirect("login", 0)
              /\ UNCHANGED store
         ELSE view

\* the fields of LoginForm
LoginFormFields == {"password", "submit"}

LoginPage == [kind |-> "login", status |-> 200]

\* GET /login
login_get ==
    /\ UNCHANGED session /\ resp' = LoginPage
    /\ UNCHANGED store

\* POST /login: a form without a password is shown again; a valid form is
\* read field by field, and reading a field the form does not have raises
\* AttributeError before any user is looked up.  Past that line the user
\* found with the password gets its id into the session, and anyone else
\* the login page with a warning
login_post(password) ==
    /\ UNCHANGED store
    /\ IF password = "" THEN UNCHANGED session /\ resp' = LoginPage
       ELSE IF "username" \notin LoginFormFields
            THEN UNCHANGED session /\ resp' = ServerError("AttributeError")
            ELSE \/ /\ session' = [user_id |-> <<1>>]
                    /\ resp' = WithFlash(Redirect("calendar_view", 0),
                                         "success", "Bienvenido.")
                 \/ UNCHANGED session /\ resp' = WithFlash(LoginPage, "danger",
                                         "Usuario o contraseña incorrectos.")

\* GET /logout: session.clear()
logout ==
    /\ session' = Anonymous
    /\ resp' = WithFlash(Redirect("login", 0), "info", "Sesión cerrada.")
    /\ UNCHANGED store

\* GET /static/<path>: a file of the application, whoever asks
static ==
    /\ UNCHANGED session /\ resp' = [kind |-> "static", status |-> 200]
    /\ UNCHANGED store

\* migrate_model(Entry): one row of the old database copied column by column,
\* with no form in between; its Day was copied before it
migrate_model(row) ==
    /\ row.day_id \in DayIds
    /\ nextEntryId <= MaxEntries
    /\ entries' = Append(entries,
            [id |-> nextEntryId, day_id |-> row.day_id,
             categoria |-> row.categoria, monto |-> row.monto,
             tipo_pago |-> row.tipo_pago,
             tutor |-> row.tutor, mascota |-> row.mascota])
    /\ nextEntryId' = nextEntryId + 1
    /\ UNCHANGED session /\ resp' = [kind |-> "none"]
    /\ UNCHANGED <<days, nextDayId, catalog, nextItemId>>

\* migrate_model(CatalogItem): one catalog row of the old database copied
\* column by column
migrate_model_CatalogItem(row) ==
    /\ nextItemId <= MaxItems
    /\ catalog' = catalog \cup {[id |-> nextItemId, categoria |-> row.categoria,
                                 nombre |-> row.nombre, precio |-> row.precio]}
    /\ nextItemId' = nextItemId + 1
    /\ UNCHANGED session /\ resp' = [kind |-> "none"]
    /\ UNCHANGED <<days, entries, nextDayId, nextEntryId>>

\* GET /calendar/report?year=&month=
calendar_report(year, month) ==
    /\ UNCHANGED store
    /\ \E top5 \in Top5s(SumasPorDia(year, month)) :
          LET stats == get_month_stats(year, month, top5)
          IN  IF ~stats.ok THEN UNCHANGED session /\ resp' = ServerError("IllegalMonthError")
              ELSE UNCHANGED session /\ resp' = [kind |-> "month_report", status |-> 200,
                            year |-> year, month |-> month, stats |-> stats]

\* GET /calendar/report.pdf?year=&month=: the lines the document draws
calendar_report_pdf(year, month) ==
    /\ UNCHANGED store
    /\ \E top5 \in Top5s(SumasPorDia(year, month)) :
          LET stats == get_month_stats(year, month, top5)
          IN  IF ~stats.ok THEN UNCHANGED session /\ resp' = ServerError("IllegalMonthError")
              ELSE UNCHANGED session /\ resp' = [kind |-> "month_report_pdf", status |-> 200,
                            year |-> year, month |-> month,
                            tot_por_pago |-> stats.tot_por_pago,
                            total_general |-> stats.total_general,
                            tot_por_cat |-> stats.tot_por_cat,
                            dias_con_mov |-> stats.dias_con_mov,
                            tx_count |-> stats.tx_count,
                            promedio_diario |-> stats.promedio_diario,
                            ticket_promedio |-> stats.ticket_promedio,
                            pico |-> IF stats.peak_day # NoDate
                                     THEN <<stats.peak_day, stats.peak_total>>
                                     ELSE << >>]

----------------------------------------------------------------------------
\* Inputs of the ledger specification, in which the database carries out
\* every operation (the failures are in SpecDay, SpecCatalog and SpecDb)

Dates == {Date(2024, 2, 1), Date(2024, 2, 29), Date(2024, 3, 1)}

DayForms ==
    {[fecha |-> f, apertura_caja |-> <<0>>, cierre_caja |-> Empty] : f \in Dates}

EntryForms ==
    {[categoria |-> "ATENCION", tipo_pago |-> "EFECTIVO", monto |-> <<1>>,
      servicio |-> Empty, tutor |-> "", mascota |-> ""],
     [categoria |-> "ATENCION", tipo_pago |-> "EFECTIVO", monto |-> <<2>>,
      servicio |-> Empty, tutor |-> "", mascota |-> ""],
     [categoria |-> "EXAMEN", tipo_pago |-> "TRANSFERENCIA", monto |-> <<2>>,
      servicio |-> Empty, tutor |-> "", mascota |-> ""],
     [categoria |-> "EXAMEN", tipo_pago |-> "TRANSFERENCIA", monto |-> <<0>>,
      servicio |-> Empty, tutor |-> "", mascota |-> ""]}

\* rows of an old database: values the forms would have refused
LegacyRows ==
    {[day_id |-> d, categoria |-> "ATENCION", tipo_pago |-> "CHEQUE", monto |-> 1,
      tutor |-> NULL, mascota |-> NULL] : d \in 1..MaxDays}
    \cup
    {[day_id |-> d, categoria |-> "HOTEL", tipo_pago |-> "EFECTIVO", monto |-> -3,
      tutor |-> NULL, mascota |-> NULL] : d \in 1..MaxDays}

Months == {<<2024, 2>>}

Init ==
    /\ days = {}
    /\ entries = << >>
    /\ nextDayId = 1
    /\ nextEntryId = 1
    /\ catalog = {}
    /\ nextItemId = 1
    /\ session = SignedIn
    /\ resp = [kind |-> "none"]

\* the orders in which the rows of a Day can come back, for every Day
EntryOrders ==
    UNION {PermSeqs({entries[i] : i \in {j \in EntryIdx : entries[j].day_id = id}}) :
              id \in 1..MaxDays}

Next ==
    \/ \E f \in DayForms : day_new(f, TRUE)
    \/ \E id \in 1..MaxDays : day_detail_get(id)
    \/ \E id \in 1..MaxDays, f \in EntryForms : day_detail_post(id, f, TRUE)
    \/ \E id \in 1..MaxDays, loaded \in EntryOrders : day_report_pdf(id, loaded)
    \/ \E id \in 1..MaxEntries : delete_entry(id, TRUE)
    \/ \E row \in LegacyRows : migrate_model(row)
    \/ \E ym \in Months : calendar_report(ym[1], ym[2])

Spec == Init /\ [][Next]_vars

----------------------------------------------------------------------------
\* The month boundaries: the ledger requests over dates on both sides of the
\* ends of February in a leap year and in a common year

ScopeDates ==
    {Date(2024, 1, 31), Date(2024, 2, 1), Date(2024, 2, 29), Date(2024, 3, 1),
     Date(2023, 2, 28), Date(2023, 3, 1)}

ScopeDayForms ==
    {[fecha |-> f, apertura_caja |-> Empty, cierre_caja |-> Empty] : f \in ScopeDates}

ScopeEntryForms ==
    {[categoria |-> "ATENCION", tipo_pago |-> "EFECTIVO", monto |-> <<1>>,
      servicio |-> Empty, tutor |-> "", mascota |-> ""],
     [categoria |-> "EXAMEN", tipo_pago |-> "TRANSFERENCIA", monto |-> <<2>>,
      servicio |-> Empty, tutor |-> "", mascota |-> ""]}

ScopeMonths == {<<2024, 2>>, <<2023, 2>>}

NextScope ==
    \/ \E f \in ScopeDayForms : day_new(f, TRUE)
    \/ \E id \in 1..MaxDays, f \in ScopeEntryForms : day_detail_post(id, f, TRUE)
    \/ \E ym \in ScopeMonths : calendar_report(ym[1], ym[2])

SpecScope == Init /\ [][NextScope]_vars

----------------------------------------------------------------------------
\* One month in full: get_month_stats applied to ledgers that hold the first
\* MaxMonthDays Days of one month; each of the first four Days has no entry,
\* one entry of amount n, or an entry of amount 1 and one of amount n; every
\* later Day n has one entry of amount n, the last Day one of amount n or n - 1
\* (the total of the Day before it)

MonthDay(n) == Date(2024, 5, n)

DayShapes(n) ==
    IF n <= 4 THEN {<< >>, <<n>>, <<1, n>>}
    ELSE IF n = MaxMonthDays THEN {<<n>>, <<n - 1>>}
    ELSE {<<n>>}

RECURSIVE ShapeEntries(_, _, _)
\* the entries of days n..MaxMonthDays of a drawn ledger, numbered in date order
ShapeEntries(shape, n, acc) ==
    IF n > MaxMonthDays THEN acc
    ELSE ShapeEntries(shape, n + 1,
            acc \o [q \in 1..Len(shape[n]) |->
                      [id |-> Len(acc) + q, day_id |-> n,
                       categoria |-> "ATENCION", monto |-> shape[n][q],
                       tipo_pago |-> "EFECTIVO", tutor |-> "", mascota |-> ""]])

InitMonth ==
    \E shape \in {f \in [1..MaxMonthDays -> UNION {DayShapes(n) : n \in 1..MaxMonthDays}] :
                       \A n \in 1..MaxMonthDays : f[n] \in DayShapes(n)} :
        /\ days = {[id |-> n, fecha |-> MonthDay(n),
                    apertura_caja |-> 0, cierre_caja |-> 0] : n \in 1..MaxMonthDays}
        /\ entries = ShapeEntries(shape, 1, << >>)
        /\ nextDayId = MaxMonthDays + 1
        /\ nextEntryId = Len(entries) + 1
        /\ catalog = {}
        /\ nextItemId = 1
        /\ session = SignedIn
        /\ resp = [kind |-> "none"]

NextMonth == calendar_report(2024, 5)

SpecMonth == InitMonth /\ [][NextMonth]_vars

----------------------------------------------------------------------------
\* The monthly report and its document over small ledgers of thousands: three
\* Days (two of May 2024, one of June) and up to MaxExampleEntries entries,
\* each one of three kinds on any of the Days; requested for May and for the
\* month numbers 0 and 13

MaxExampleEntries == 3

ExampleKinds ==
    {[categoria |-> "ATENCION", tipo_pago |-> "EFECTIVO", monto |-> 1000],
     [categoria |-> "EXAMEN", tipo_pago |-> "TRANSFERENCIA", monto |-> 2000],
     [categoria |-> "ATENCION", tipo_pago |-> "EFECTIVO", monto |-> 3000]}

ExampleDays ==
    {[id |-> 1, fecha |-> Date(2024, 5, 10), apertura_caja |-> 0, cierre_caja |-> 0],
     [id |-> 2, fecha |-> Date(2024, 5, 20), apertura_caja |-> 0, cierre_caja |-> 0],
     [id |-> 3, fecha |-> Date(2024, 6, 1), apertura_caja |-> 0, cierre_caja |-> 0]}

ExampleMonths == {<<2024, 5>>, <<2024, 0>>, <<2024, 13>>}

InitExample ==
    \E n \in 0..MaxExampleEntries :
        \E kind \in [1..n -> ExampleKinds], day \in [1..n -> 1..3] :
            /\ days = ExampleDays
            /\ entries = [i \in 1..n |->
                             [id |-> i, day_id |-> day[i],
                              categoria |-> kind[i].categoria,
                              monto |-> kind[i].monto,
                              tipo_pago |-> kind[i].tipo_pago,
                              servicio |-> Empty, tutor |-> "", mascota |-> ""]]
            /\ nextDayId = 4
            /\ nextEntryId = n + 1
            /\ catalog = {}
            /\ nextItemId = 1
            /\ session = SignedIn
            /\ resp = [kind |-> "none"]

NextExample ==
    \/ \E ym \in ExampleMonths : calendar_report(ym[1], ym[2])
    \/ \E ym \in ExampleMonths : calendar_report_pdf(ym[1], ym[2])

SpecExample == InitExample /\ [][NextExample]_vars

----------------------------------------------------------------------------
\* The accounts of a Day: entries written through the form with an owner and
\* a pet or with neither, next to rows copied from an old database whose
\* owner and pet are NULL

PatientDayForms ==
    {[fecha |-> Date(2024, 2, 1), apertura_caja |-> Empty, cierre_caja |-> Empty]}

PatientEntryForms ==
    {[categoria |-> "ATENCION", tipo_pago |-> "EFECTIVO", monto |-> <<1>>,
      servicio |-> Empty, tutor |-> " Ana ", mascota |-> " Rex "],
     [categoria |-> "ATENCION", tipo_pago |-> "EFECTIVO", monto |-> <<2>>,
      servicio |-> Empty, tutor |-> "Ana", mascota |-> "Rex"],
     [categoria |-> "EXAMEN", tipo_pago |-> "TRANSFERENCIA", monto |-> <<3>>,
      servicio |-> Empty, tutor |-> "", mascota |-> " "]}

PatientLegacyRows ==
    {[day_id |-> 1, categoria |-> "ATENCION", tipo_pago |-> "EFECTIVO", monto |-> 4,
      tutor |-> NULL, mascota |-> NULL],
     [day_id |-> 1, categoria |-> "ATENCION", tipo_pago |-> "EFECTIVO", monto |-> 5,
      tutor |-> "Ana", mascota |-> NULL]}

NextPatients ==
    \/ \E f \in PatientDayForms, db_ok \in BOOLEAN : day_new(f, db_ok)
    \/ \E f \in PatientEntryForms, db_ok \in BOOLEAN : day_detail_post(1, f, db_ok)
    \/ \E row \in PatientLegacyRows : migrate_model(row)
    \/ \E id \in 1..MaxEntries, db_ok \in BOOLEAN : delete_entry(id, db_ok)
    \/ day_detail_get(1)
    \/ \E t \in {"", " Ana "}, m \in {"", "Rex"} : day_patient_pdf(1, t, m)

SpecPatients == Init /\ [][NextPatients]_vars

----------------------------------------------------------------------------
\* The Days and their balances: created, edited, closed and deleted, with
\* entries added and removed in between; an edit or a close may fail in the
\* database

BalanceDates == {Date(2024, 2, 1), Date(2024, 2, 2)}

DayNewForms ==
    {[fecha |-> f, apertura_caja |-> Empty, cierre_caja |-> Empty] :
        f \in BalanceDates}

DayEditForms ==
    {[fecha |-> Date(2024, 2, 1), apertura_caja |-> <<5>>, cierre_caja |-> <<9>>],
     [fecha |-> Date(2024, 2, 2), apertura_caja |-> <<5>>, cierre_caja |-> Empty],
     [fecha |-> Date(2024, 2, 1), apertura_caja |-> <<5>>, cierre_caja |-> <<-1>>]}

BalanceEntryForms ==
    {[categoria |-> "ATENCION", tipo_pago |-> "EFECTIVO", monto |-> <<n>>,
      servicio |-> Empty, tutor |-> "", mascota |-> ""] : n \in {1, 2}}

NextDay ==
    \/ \E f \in DayNewForms : day_new(f, TRUE)
    \/ \E id \in 1..MaxDays, f \in DayEditForms, db_ok \in BOOLEAN :
          day_edit(id, f, db_ok)
    \/ \E id \in 1..MaxDays, db_ok \in BOOLEAN : day_close(id, db_ok)
    \/ \E id \in 1..MaxDays, f \in BalanceEntryForms :
          day_detail_post(id, f, TRUE)
    \/ \E id \in 1..MaxEntries : delete_entry(id, TRUE)
    \/ \E id \in 1..MaxDays : delete_day(id)

SpecDay == Init /\ [][NextDay]_vars

----------------------------------------------------------------------------
\* The two documents of a Day over ledgers of one Day with up to MaxPdfRows
\* entries, every other one on the account of Ana's Rex

MaxPdfRows == 60

InitPdf ==
    \E n \in 0..MaxPdfRows :
        /\ days = {[id |-> 1, fecha |-> Date(2024, 2, 1),
                    apertura_caja |-> 0, cierre_caja |-> 0]}
        /\ entries = [i \in 1..n |->
                         [id |-> i, day_id |-> 1, categoria |-> "ATENCION",
                          monto |-> 1, tipo_pago |-> "EFECTIVO",
                          tutor |-> IF i % 2 = 1 THEN "Ana" ELSE "",
                          mascota |-> IF i % 2 = 1 THEN "Rex" ELSE ""]]
        /\ nextDayId = 2
        /\ nextEntryId = n + 1
        /\ catalog = {}
        /\ nextItemId = 1
        /\ session = SignedIn
        /\ resp = [kind |-> "none"]

\* the rows of Day 1 by ascending and by descending id
PdfOrders ==
    LET es == DayEntries(1)
    IN  {es, [n \in 1..Len(es) |-> es[Len(es) + 1 - n]]}

NextPdf ==
    \/ \E loaded \in PdfOrders : day_report_pdf(1, loaded)
    \/ \E t \in {"", " Ana "} : day_patient_pdf(1, t, "")

SpecPdf == InitPdf /\ [][NextPdf]_vars

----------------------------------------------------------------------------
\* The catalog and the entries priced from it, with a database that can fail:
\* items written through the catalog form or copied from an old database
\* (a negative price, no price), and entries posted with or without an item,
\* with no amount, 0, a negative or a positive amount

CatalogForms ==
    {[categoria |-> "ATENCION", nombre |-> " Vacuna ", precio |-> <<7>>],
     [categoria |-> "ATENCION", nombre |-> "vacuna", precio |-> Empty],
     [categoria |-> "EXAMEN", nombre |-> "Vacuna", precio |-> <<3>>],
     [categoria |-> "ATENCION", nombre |-> " ", precio |-> <<-2>>]}

LegacyItems ==
    {[categoria |-> "ATENCION", nombre |-> "Hotel", precio |-> <<-4>>],
     [categoria |-> "ATENCION", nombre |-> "Control", precio |-> Empty]}

CatalogDayForms ==
    {[fecha |-> Date(2024, 2, 1), apertura_caja |-> Empty, cierre_caja |-> Empty]}

CatalogEntryForms ==
    {[categoria |-> "ATENCION", tipo_pago |-> "EFECTIVO", monto |-> m,
      servicio |-> srv, tutor |-> "", mascota |-> ""] :
        m \in {Empty, <<0>>, <<-5>>, <<6>>},
        srv \in {Empty} \cup {<<i>> : i \in 1..MaxItems}}
    \cup {[categoria |-> "atencion", tipo_pago |-> "EFECTIVO", monto |-> Empty,
            servicio |-> <<1>>, tutor |-> "", mascota |-> ""]}

NextCatalog ==
    \/ \E f \in CatalogForms, db_ok \in BOOLEAN : catalog_new(f, db_ok)
    \/ \E id \in 1..MaxItems, f \in CatalogForms, db_ok \in BOOLEAN :
          catalog_edit(id, f, db_ok)
    \/ \E id \in 1..MaxItems, db_ok \in BOOLEAN : catalog_delete(id, db_ok)
    \/ \E row \in LegacyItems : migrate_model_CatalogItem(row)
    \/ \E f \in CatalogDayForms, db_ok \in BOOLEAN : day_new(f, db_ok)
    \/ \E f \in CatalogEntryForms, db_ok \in BOOLEAN : day_detail_post(1, f, db_ok)

SpecCatalog == Init /\ [][NextCatalog]_vars

----------------------------------------------------------------------------
\* Every handler that writes through safe_db_operation, over one or two Days,
\* the entries of Day 1 and a small catalog, with a database that carries
\* out or fails each operation

DbDayForms ==
    {[fecha |-> Date(2024, 2, d), apertura_caja |-> Empty, cierre_caja |-> Empty] :
        d \in {1, 2}}

DbDayEditForms ==
    {[fecha |-> Date(2024, 2, 1), apertura_caja |-> Empty, cierre_caja |-> <<9>>]}

DbEntryForms ==
    {[categoria |-> "ATENCION", tipo_pago |-> "EFECTIVO", monto |-> <<1>>,
      servicio |-> Empty, tutor |-> "", mascota |-> ""]}

DbCatalogForms ==
    {[categoria |-> "ATENCION", nombre |-> "Vacuna", precio |-> <<7>>]}

DbCatalogEditForms ==
    {[categoria |-> "EXAMEN", nombre |-> "Control", precio |-> <<3>>]}

NextDb ==
    \/ \E f \in DbDayForms, db_ok \in BOOLEAN : day_new(f, db_ok)
    \/ \E id \in 1..MaxDays, f \in DbDayEditForms, db_ok \in BOOLEAN :
          day_edit(id, f, db_ok)
    \/ \E db_ok \in BOOLEAN : day_close(1, db_ok)
    \/ \E f \in DbEntryForms, db_ok \in BOOLEAN : day_detail_post(1, f, db_ok)
    \/ \E id \in 1..MaxEntries, db_ok \in BOOLEAN : delete_entry(id, db_ok)
    \/ \E f \in DbCatalogForms, db_ok \in BOOLEAN : catalog_new(f, db_ok)
    \/ \E id \in 1..MaxItems, f \in DbCatalogEditForms, db_ok \in BOOLEAN :
          catalog_edit(id, f, db_ok)
    \/ \E id \in 1..MaxItems, db_ok \in BOOLEAN : catalog_delete(id, db_ok)

SpecDb == Init /\ [][NextDb]_vars

----------------------------------------------------------------------------
\* The configuration loaded under every environment made of these settings

DatabaseUrls ==
    {Url("", << >>),
     Url("postgres", <<"u:p@host/vet">>),
     Url("postgresql", <<"u:p@host/vet">>),
     Url("postgresql+psycopg2", <<"u:p@host/vet">>),
     Url("sqlite", <<"/", "/data", "app.db">>),
     Url("sqlite", <<"/app.db">>),
     Url("mysql", <<"u:p@host/vet">>)}

Environments ==
    [RENDER : {Empty, <<"">>, <<"true">>},
     RENDER_SERVICE_ID : {Empty, <<"">>, <<"srv-1">>},
     DATABASE_URL : {Empty} \cup {<<u>> : u \in DatabaseUrls},
     RUNTIME_DB_DIR : {Empty, <<"/data">>}]

NextConfig == \E env \in Environments : Config(env)

SpecConfig == Init /\ [][NextConfig]_vars

----------------------------------------------------------------------------
\* Requests of a client that holds no session, or the session of user 1,
\* each one through before_request: the ledger written and read, a report,
\* the catalog, the login page, logout and a static file

Passwords == {"", "admin"}

LoginDayForms ==
    {[fecha |-> Date(2024, 2, d), apertura_caja |-> Empty, cierre_caja |-> Empty] :
        d \in {1, 2}}

LoginEntryForms ==
    {[categoria |-> "ATENCION", tipo_pago |-> "EFECTIVO", monto |-> <<n>>,
      servicio |-> Empty, tutor |-> "", mascota |-> ""] : n \in {1, 2}}

LoginCatalogForms ==
    {[categoria |-> "ATENCION", nombre |-> "Vacuna", precio |-> <<7>>]}

InitLogin ==
    /\ days = {}
    /\ entries = << >>
    /\ nextDayId = 1
    /\ nextEntryId = 1
    /\ catalog = {}
    /\ nextItemId = 1
    /\ session \in {Anonymous, SignedIn}
    /\ resp = [kind |-> "none"]

NextLogin ==
    \/ require_login("login", login_get)
    \/ \E password \in Passwords : require_login("login", login_post(password))
    \/ require_login("logout", logout)
    \/ require_login("static", static)
    \/ \E f \in LoginDayForms : require_login("day_new", day_new(f, TRUE))
    \/ \E id \in 1..MaxDays : require_login("day_detail", day_detail_get(id))
    \/ \E id \in 1..MaxDays, f \in LoginEntryForms :
          require_login("day_detail", day_detail_post(id, f, TRUE))
    \/ \E id \in 1..MaxEntries :
          require_login("entry_delete", delete_entry(id, TRUE))
    \/ \E id \in 1..MaxDays, loaded \in EntryOrders :
          require_login("day_report_pdf", day_report_pdf(id, loaded))
    \/ \E f \in LoginCatalogForms :
          require_login("catalog_new", catalog_new(f, TRUE))

SpecLogin == InitLogin /\ [][NextLogin]_vars

----------------------------------------------------------------------------
\* Reference sums the properties compare against: entry by entry, from the
\* last position down

RECURSIVE ExpectedSum(_, _)
ExpectedSum(I, n) ==
    IF n = 0 THEN 0
    ELSE (IF n \in I THEN entries[n].monto ELSE 0) + ExpectedSum(I, n - 1)

IdxOfDay(id) == {i \in EntryIdx : entries[i].day_id = id}
IdxOfDayPago(id, k) == {i \in IdxOfDay(id) : entries[i].tipo_pago = k}
IdxOfDayCat(id, c) == {i \in IdxOfDay(id) : entries[i].categoria = c}
Sum3(t) == t["DEBITO/CREDITO"] + t["EFECTIVO"] + t["TRANSFERENCIA"]
IsDayPage == resp.kind \in {"day_detail", "day_report_pdf"}

----------------------------------------------------------------------------
\* C1: for every Day, total_dia is the sum of the amounts of the Day's
\* entries, and 0 for a Day without entries; the daily report shows that sum.
C1_DayTotalIsSum ==
    /\ \A id \in DayIds :
          /\ total_dia(id) = ExpectedSum(IdxOfDay(id), Len(entries))
          /\ IdxOfDay(id) = {} => total_dia(id) = 0
    /\ resp.kind = "day_report_pdf" =>
          resp.total_dia = ExpectedSum(IdxOfDay(resp.day_id), Len(entries))

\* a daily report of a Day with two or more entries whose amounts differ
C1_Witness ==
    /\ resp.kind = "day_report_pdf"
    /\ Cardinality(IdxOfDay(resp.day_id)) >= 2
    /\ resp.total_dia = 3

\* C2: a Day holding an entry with an unrecognized payment method or category
\* is still summarized: no error, the entry left out, exactly the 3 payment
\* keys and the 5 category keys.
C2_UnknownValuesIgnored ==
    /\ ~(resp.kind = "error" /\ resp.error = "KeyError")
    /\ IsDayPage =>
          /\ DOMAIN resp.tot_pago = PaymentKeys
          /\ DOMAIN resp.tot_cat = CategoryKeys
          /\ \A k \in PaymentKeys :
                resp.tot_pago[k] =
                    ExpectedSum(IdxOfDayPago(resp.day_id, k), Len(entries))
          /\ \A c \in CategoryKeys :
                resp.tot_cat[c] =
                    ExpectedSum(IdxOfDayCat(resp.day_id, c), Len(entries))

\* C3: for a Day whose entries all carry recognized payment methods,
\* total_por_pago maps each of the 3 methods to the sum of the amounts of the
\* Day's entries with that method, and the three values add up to total_dia.
C3_TotalsByPayment ==
    /\ \A id \in DayIds :
          (\A i \in IdxOfDay(id) : entries[i].tipo_pago \in PaymentKeys) =>
             LET r == total_por_pago(id)
             IN  /\ r.ok
                 /\ DOMAIN r.tot = PaymentKeys
                 /\ \A k \in PaymentKeys :
                       r.tot[k] = ExpectedSum(IdxOfDayPago(id, k), Len(entries))
                 /\ Sum3(r.tot) = total_dia(id)
    /\ IsDayPage =>
          /\ \A k \in PaymentKeys :
                resp.tot_pago[k] =
                    ExpectedSum(IdxOfDayPago(resp.day_id, k), Len(entries))
          /\ Sum3(resp.tot_pago) = ExpectedSum(IdxOfDay(resp.day_id), Len(entries))
    /\ resp.kind = "day_report_pdf" => Sum3(resp.tot_pago) = resp.total_dia

\* a daily page with two entries paid the same way and two methods nobody used
C3_Witness ==
    /\ IsDayPage
    /\ Cardinality(IdxOfDayPago(resp.day_id, "EFECTIVO")) = 2
    /\ resp.tot_pago["EFECTIVO"] = 3
    /\ resp.tot_pago["TRANSFERENCIA"] = 0
    /\ resp.tot_pago["DEBITO/CREDITO"] = 0

----------------------------------------------------------------------------
\* Reference values for the monthly properties, taken from the calendar fields of
\* the dates, with no use of month_start / month_end

FechaOfIdx(i) == DayById(entries[i].day_id).fecha
InMonthIdx(year, month) ==
    {i \in EntryIdx : FechaOfIdx(i).y = year /\ FechaOfIdx(i).m = month}
InMonthDays(year, month) ==
    {d \in days : d.fecha.y = year /\ d.fecha.m = month}
Abs(x) == IF x >= 0 THEN x ELSE -x
\* the integer q nearest to zero side of t / n: |q| * n <= |t| < (|q| + 1) * n
TruncQuot(t, n) ==
    CHOOSE q \in -Abs(t)..Abs(t) :
        /\ Abs(q) * n <= Abs(t)
        /\ Abs(t) < (Abs(q) + 1) * n
        /\ q # 0 => ((q > 0) <=> (t > 0))
IsMonthReport == resp.kind = "month_report"
Zero == [num |-> 0, den |-> 1]

\* C4: a valid month with no entry in scope (Day records without entries
\* included) gets a report with every total, count, average and share at
\* zero, an empty top5 and no peak day; no exception.
C4_EmptyMonthIsZero ==
    /\ resp.kind = "error" => resp.error = "KeyError"
    /\ (IsMonthReport /\ InMonthIdx(resp.year, resp.month) = {}) =>
          LET st == resp.stats
          IN  /\ st.total_general = 0
              /\ st.tx_count = 0
              /\ st.dias_con_mov = 0
              /\ st.promedio_diario = 0
              /\ st.ticket_promedio = 0
              /\ \A c \in CategoryKeys : st.ticket_promedio_cat[c] = 0
              /\ st.top5 = << >>
              /\ st.peak_day = NoDate
              /\ st.peak_total = 0
              /\ \A k \in PaymentKeys : st.tot_por_pago[k] = 0
              /\ \A c \in CategoryKeys : st.tot_por_cat[c] = 0
              /\ \A k \in PaymentKeys : st.part_pago[k] = Zero
              /\ \A c \in CategoryKeys : st.part_cat[c] = Zero

\* the report of a month that has a Day record but no entry, while another
\* month has entries
C4_Witness ==
    /\ IsMonthReport
    /\ InMonthDays(resp.year, resp.month) # {}
    /\ InMonthIdx(resp.year, resp.month) = {}
    /\ entries # << >>

\* C5: when every entry in scope has a recognized payment method,
\* tot_por_pago[m] is the sum of the amounts of the entries in scope paid with
\* m, and total_general is the sum of the three, i.e. of all amounts in scope.
C5_MonthTotalsByPayment ==
    (/\ IsMonthReport
     /\ \A i \in InMonthIdx(resp.year, resp.month) :
           entries[i].tipo_pago \in PaymentKeys) =>
        LET st == resp.stats
            I == InMonthIdx(resp.year, resp.month)
        IN  /\ \A k \in PaymentKeys :
                  st.tot_por_pago[k] =
                      ExpectedSum({i \in I : entries[i].tipo_pago = k}, Len(entries))
            /\ st.total_general = Sum3(st.tot_por_pago)
            /\ st.total_general = ExpectedSum(I, Len(entries))

\* a report over two entries in scope on two days, paid in different ways
C5_Witness ==
    /\ IsMonthReport
    /\ Cardinality(InMonthIdx(resp.year, resp.month)) = 2
    /\ resp.stats.dias_con_mov = 2
    /\ resp.stats.tot_por_pago["EFECTIVO"] = 1
    /\ resp.stats.tot_por_pago["TRANSFERENCIA"] = 2
    /\ resp.stats.total_general = 3

\* C7: dias_con_mov is the number of distinct Days of the month with at least
\* one entry: a Day without entries is not counted, a Day with several entries
\* is counted once.
C7_DaysWithMovement ==
    IsMonthReport =>
        resp.stats.dias_con_mov =
            Cardinality({d \in InMonthDays(resp.year, resp.month) :
                            IdxOfDay(d.id) # {}})

\* a month with one Day holding two entries and one Day holding none
C7_Witness ==
    /\ IsMonthReport
    /\ Cardinality(InMonthDays(resp.year, resp.month)) = 2
    /\ \E d \in InMonthDays(resp.year, resp.month) : IdxOfDay(d.id) = {}
    /\ \E d \in InMonthDays(resp.year, resp.month) : Cardinality(IdxOfDay(d.id)) >= 2
    /\ resp.stats.dias_con_mov = 1

\* C8: promedio_diario is total_general / dias_con_mov truncated toward zero
\* when dias_con_mov > 0, and 0 when dias_con_mov = 0.
C8_AverageDaily ==
    IsMonthReport =>
        LET st == resp.stats
        IN  IF st.dias_con_mov > 0
            THEN st.promedio_diario = TruncQuot(st.total_general, st.dias_con_mov)
            ELSE st.promedio_diario = 0

\* a total of 3 over 2 days with movement: 1.5 truncated to 1
C8_Witness ==
    /\ IsMonthReport
    /\ resp.stats.dias_con_mov = 2
    /\ resp.stats.total_general = 3
    /\ resp.stats.promedio_diario = 1

\* C9: tx_count is the number of entries in scope; ticket_promedio is
\* total_general / tx_count truncated, 0 without entries; ticket_promedio_cat[c]
\* is tot_por_cat[c] divided by the number of entries in scope of category c,
\* truncated, 0 when there is none.
C9_Tickets ==
    IsMonthReport =>
        LET st == resp.stats
            I == InMonthIdx(resp.year, resp.month)
            N(c) == Cardinality({i \in I : entries[i].categoria = c})
        IN  /\ st.tx_count = Cardinality(I)
            /\ IF st.tx_count > 0
               THEN st.ticket_promedio = TruncQuot(st.total_general, st.tx_count)
               ELSE st.ticket_promedio = 0
            /\ \A c \in CategoryKeys :
                  IF N(c) > 0
                  THEN st.ticket_promedio_cat[c] = TruncQuot(st.tot_por_cat[c], N(c))
                  ELSE st.ticket_promedio_cat[c] = 0

\* two entries of one category in scope: 3 / 2 truncated to 1, overall and
\* for that category, and 0 for a category without entries
C9_Witness ==
    /\ IsMonthReport
    /\ resp.stats.tx_count = 2
    /\ resp.stats.total_general = 3
    /\ resp.stats.ticket_promedio = 1
    /\ resp.stats.tot_por_cat["ATENCION"] = 3
    /\ resp.stats.ticket_promedio_cat["ATENCION"] = 1
    /\ resp.stats.ticket_promedio_cat["FARMACIA"] = 0

----------------------------------------------------------------------------
\* C6: the report aggregates exactly the entries of the Days dated from the
\* first to the last day of the month, the last day being the real length of
\* the month (29 February in a leap year): the first and the last day count,
\* the day before and the day after never do.
C6_MonthScope ==
    IsMonthReport =>
        LET st == resp.stats
            I == InMonthIdx(resp.year, resp.month)
            rows == {st.top5[n] : n \in 1..Len(st.top5)}
        IN  /\ st.month_start = Date(resp.year, 2, 1)
            /\ st.month_end = IF resp.year = 2024 THEN Date(2024, 2, 29)
                              ELSE Date(2023, 2, 28)
            /\ st.tx_count = Cardinality(I)
            /\ st.total_general = ExpectedSum(I, Len(entries))
            /\ \A k \in PaymentKeys :
                  st.tot_por_pago[k] =
                      ExpectedSum({i \in I : entries[i].tipo_pago = k}, Len(entries))
            /\ \A c \in CategoryKeys :
                  st.tot_por_cat[c] =
                      ExpectedSum({i \in I : entries[i].categoria = c}, Len(entries))
            /\ st.dias_con_mov = Cardinality({entries[i].day_id : i \in I})
            /\ rows = {<<d.fecha, ExpectedSum(IdxOfDay(d.id), Len(entries))>> :
                          d \in {x \in InMonthDays(resp.year, resp.month) :
                                    IdxOfDay(x.id) # {}}}

\* the report of February 2024 over a ledger with one entry on 29 February
\* and one on 1 March
C6_Witness ==
    /\ IsMonthReport
    /\ resp.year = 2024
    /\ \E d \in days : d.fecha = Date(2024, 2, 29) /\ IdxOfDay(d.id) # {}
    /\ \E d \in days : d.fecha = Date(2024, 3, 1) /\ IdxOfDay(d.id) # {}
    /\ resp.stats.tx_count = 1
    /\ Len(entries) = 2

\* C10: top5 has min(5, number of dates with an entry) elements, each one a
\* (date, day total) pair of the month, in non-increasing order of total, and
\* no pair left out has a larger total than one that is in.
C10_Top5 ==
    IsMonthReport =>
        LET top5 == resp.stats.top5
            perDay == {<<d.fecha, ExpectedSum(IdxOfDay(d.id), Len(entries))>> :
                          d \in {x \in InMonthDays(resp.year, resp.month) :
                                    IdxOfDay(x.id) # {}}}
            inTop == {top5[n] : n \in 1..Len(top5)}
        IN  /\ Len(top5) = Min(5, Cardinality(perDay))
            /\ inTop \subseteq perDay
            /\ Cardinality(inTop) = Len(top5)
            /\ \A n \in 1..(Len(top5) - 1) : top5[n][2] >= top5[n + 1][2]
            /\ \A r \in perDay \ inTop : \A t \in inTop : r[2] <= t[2]

\* six dates with entries: five are listed, two of them with equal totals,
\* and the date left out has a smaller total than every listed one
C10_Witness ==
    /\ IsMonthReport
    /\ Cardinality({entries[i].day_id : i \in EntryIdx}) = 6
    /\ Len(resp.stats.top5) = 5
    /\ resp.stats.top5[4][2] = resp.stats.top5[5][2]
    /\ \E d \in days :
          /\ \A n \in 1..5 : resp.stats.top5[n][1] # d.fecha
          /\ ExpectedSum(IdxOfDay(d.id), Len(entries)) < resp.stats.top5[5][2]

C12_Example ==
    (/\ IsMonthReport
     /\ LET I == InMonthIdx(resp.year, resp.month)
            Kind(i) == [categoria |-> entries[i].categoria,
                        tipo_pago |-> entries[i].tipo_pago,
                        monto |-> entries[i].monto]
        IN  /\ Cardinality(I) = 3
            /\ {Kind(i) : i \in I} = ExampleKinds
            /\ Cardinality({entries[i].day_id : i \in I}) = 2) =>
        LET st == resp.stats
        IN  /\ st.total_general = 6000
            /\ st.tot_por_pago = [k \in PaymentKeys |->
                                     CASE k = "EFECTIVO" -> 4000
                                       [] k = "TRANSFERENCIA" -> 2000
                                       [] OTHER -> 0]
            /\ st.tx_count = 3
            /\ st.dias_con_mov = 2
            /\ st.promedio_diario = 3000
            /\ st.ticket_promedio = 2000
            /\ pct(st.part_pago["EFECTIVO"]) =
                   {[neg |-> FALSE, whole |-> 66, tenth |-> 7]}
            /\ pct(st.part_pago["TRANSFERENCIA"]) =
                   {[neg |-> FALSE, whole |-> 33, tenth |-> 3]}
            /\ pct(st.part_pago["DEBITO/CREDITO"]) =
                   {[neg |-> FALSE, whole |-> 0, tenth |-> 0]}

\* the report of May over the three entries of the example, 1000 and 3000 on
\* one day and 2000 on the other
C12_Witness ==
    /\ IsMonthReport
    /\ resp.month = 5
    /\ Len(entries) = 3
    /\ {entries[i].monto : i \in EntryIdx} = {1000, 2000, 3000}
    /\ \E i, j \in EntryIdx :
          /\ entries[i].monto = 1000 /\ entries[j].monto = 3000
          /\ entries[i].day_id = entries[j].day_id
          /\ entries[i].day_id \in {1, 2}
    /\ \E i \in EntryIdx :
          entries[i].monto = 2000 /\ entries[i].tipo_pago = "TRANSFERENCIA"
    /\ Cardinality({entries[i].day_id : i \in EntryIdx}) = 2
    /\ \A i \in EntryIdx : entries[i].day_id \in {1, 2}
    /\ resp.stats.total_general = 6000

\* C19: a monthly report or its document asked for a month number outside
\* 1..12 fails: whatever report is answered is for the month number that was
\* asked, that number is within 1..12, and its scope starts and ends in that
\* very month (no clamping, no wrapping).
C19_InvalidMonth ==
    /\ resp.kind \in {"month_report", "month_report_pdf"} => resp.month \in 1..12
    /\ IsMonthReport =>
          /\ resp.stats.month_start = Date(resp.year, resp.month, 1)
          /\ resp.stats.month_end.y = resp.year
          /\ resp.stats.month_end.m = resp.month
    /\ resp.kind = "error" => resp.error = "IllegalMonthError"

\* the request failed although May, the month a clamp of 0 or 13 would come
\* closest to in this ledger, has entries to report
C19_Witness ==
    /\ resp.kind = "error"
    /\ resp.error = "IllegalMonthError"
    /\ resp.status = 500
    /\ InMonthIdx(2024, 5) # {}

----------------------------------------------------------------------------
HasFlash(r, category) == "flash" \in DOMAIN r /\ r.flash.category = category
Closed == resp.kind = "redirect" /\ resp.to = "day_close_confirm"

\* C13: on the page of a Day the owner and the pet of an entry count as ""
\* when they are NULL, before the entries are grouped: no two groups carry the
\* same (owner, pet), and there are as many groups as the Day has distinct
\* (owner, pet) pairs after that normalization.
C13_GroupsNormalized ==
    resp.kind = "day_detail" =>
        LET g == resp.patient_groups
            Norm(i) == <<OrEmpty(entries[i].tutor), OrEmpty(entries[i].mascota)>>
        IN  /\ \A m, n \in 1..Len(g) :
                  (g[m].tutor = g[n].tutor /\ g[m].mascota = g[n].mascota) => m = n
            /\ Len(g) = Cardinality({Norm(i) : i \in IdxOfDay(resp.day_id)})

\* C15: right after a successful close the closing balance of the Day is its
\* opening balance plus the sum of the amounts of its entries, whatever the
\* closing balance was before (a value typed in an edit is overwritten).
C15_CloseBalance ==
    Closed =>
        /\ HasFlash(resp, "success")
        /\ resp.id \in DayIds
        /\ DayById(resp.id).cierre_caja =
               DayById(resp.id).apertura_caja
                 + ExpectedSum(IdxOfDay(resp.id), Len(entries))

\* a Day just closed at 5 + 3 = 8: its opening balance of 5 can only come
\* from an edit, and every edit that sets it sets the closing balance to 0
\* or 9 at the same time
C15_Witness ==
    /\ Closed
    /\ DayById(resp.id).apertura_caja = 5
    /\ Cardinality(IdxOfDay(resp.id)) = 2
    /\ DayById(resp.id).cierre_caja = 8

\* C16: no two Days ever have the same date; a Day that is added or changed
\* never takes the date of another Day, and a create request for a date that
\* has a Day changes nothing and leads to that Day.
C16_OneDayPerDate ==
    /\ [](\A d, e \in days : d.fecha = e.fecha => d = e)
    /\ [][(\A d \in days' \ days :
              \A e \in days : (e.id # d.id => e.fecha # d.fecha))
          /\ (HasFlash(resp', "warning") =>
                (/\ days' = days
                 /\ resp'.kind = "redirect" /\ resp'.to = "day_detail"
                 /\ \E d \in days : d.id = resp'.id))]_vars

\* an edit asked for the date of the other Day and was refused by the
\* database
C16_Witness ==
    /\ Cardinality(days) = 2
    /\ resp.kind = "day_edit_form"
    /\ HasFlash(resp, "danger")
    /\ resp.flash.message = <<"Error al actualizar el día", "IntegrityError">>

----------------------------------------------------------------------------
\* Reference geometry of a page: the rows that fit from a cursor position down
\* to the 60 pt limit, 14 pt apart
PageTop == A4Height - Pt(40)
RowsThatFit(y) == ((y - Pt(60)) \div Pt(14)) + 1
CeilDiv(a, b) == (a + b - 1) \div b

C18_AmountsNonNegative ==
    /\ [](\A i \in EntryIdx : entries[i].monto >= 0)
    /\ [][(entries' # entries) =>
            (\A f \in CatalogEntryForms, db_ok \in BOOLEAN :
                (f.monto # Empty /\ f.monto[1] < 0) => ~day_detail_post(1, f, db_ok))]_vars

\* the catalog holds an item copied with the price -4 and an item priced 7;
\* an entry was stored at the price 7, which no request sends as its amount,
\* and the last request was refused and answered with the page of the Day
C18_Witness ==
    /\ \E i \in catalog : i.precio = <<-4>>
    /\ \E i \in catalog : i.precio = <<7>>
    /\ Len(entries) = 1 /\ entries[1].monto = 7
    /\ resp.kind = "day_detail" /\ ~HasFlash(resp, "danger")

\* C20: in each of the eight handlers that write through safe_db_operation,
\* a step that flashes an error leaves days, entries, the catalog and the id
\* counters as they were, and they change only with the success flashed; a
\* step that a handler takes only when the database fails changes nothing
\* and flashes the error, a step it takes only when the database does not
\* fail flashes the success; the fields an edit sets are all set.
C20_AllOrNothing ==
    [][/\ (HasFlash(resp', "danger") => (store' = store))
       /\ ((store' # store) => HasFlash(resp', "success"))
       /\ \A ok \in BOOLEAN :
            LET Outcome == IF ok THEN HasFlash(resp', "success")
                           ELSE HasFlash(resp', "danger") /\ (store' = store)
            IN  \/ Outcome
                \/ /\ \A f \in DbDayForms :
                         ~(day_new(f, ok) /\ ~day_new(f, ~ok))
                   /\ \A id \in 1..MaxDays, f \in DbDayEditForms :
                         ~(day_edit(id, f, ok) /\ ~day_edit(id, f, ~ok))
                   /\ ~(day_close(1, ok) /\ ~day_close(1, ~ok))
                   /\ \A f \in DbEntryForms :
                         ~(day_detail_post(1, f, ok) /\ ~day_detail_post(1, f, ~ok))
                   /\ \A id \in 1..MaxEntries :
                         ~(delete_entry(id, ok) /\ ~delete_entry(id, ~ok))
                   /\ \A f \in DbCatalogForms :
                         ~(catalog_new(f, ok) /\ ~catalog_new(f, ~ok))
                   /\ \A id \in 1..MaxItems, f \in DbCatalogEditForms :
                         ~(catalog_edit(id, f, ok) /\ ~catalog_edit(id, f, ~ok))
                   /\ \A id \in 1..MaxItems :
                         ~(catalog_delete(id, ok) /\ ~catalog_delete(id, ~ok))
       /\ \A id \in 1..MaxDays, f \in DbDayEditForms :
            (day_edit(id, f, TRUE) /\ HasFlash(resp', "success"))
                => (\E d \in days' : /\ d.id = id
                                     /\ d.fecha = f.fecha
                                     /\ d.apertura_caja = OrZero(f.apertura_caja)
                                     /\ d.cierre_caja = OrZero(f.cierre_caja))
       /\ \A id \in 1..MaxItems, f \in DbCatalogEditForms :
            (catalog_edit(id, f, TRUE) /\ HasFlash(resp', "success"))
                => (\E i \in catalog' : /\ i.id = id
                                        /\ i.categoria = f.categoria
                                        /\ i.nombre = Strip(f.nombre)
                                        /\ i.precio = <<OrZero(f.precio)>>)]_vars

\* with two Days, an entry and a catalog item stored, an edit that gives a
\* Day the date of the other was refused by the database: the error is
\* flashed with the text of the exception
C20_Witness ==
    /\ Cardinality(days) = 2 /\ Len(entries) > 0 /\ catalog # {}
    /\ resp.kind = "day_edit_form" /\ HasFlash(resp, "danger")
    /\ resp.flash.message = <<"Error al actualizar el día", "IntegrityError">>


\* C21: the daily report has the table of entries only when the Day has an
\* entry, after the heading and the totals by payment method and by category
\* (which fill page 1: the table starts on page 2), and the table lists the
\* entries of the Day by ascending id, each one once.
C21_ReportTable ==
    resp.kind = "day_report_pdf" =>
        LET rows == resp.rows
            M == Len(rows)
        IN  /\ (M > 0) <=> (IdxOfDay(resp.day_id) # {})
            /\ M > 0 => rows[1].page = 2
            /\ M = Cardinality(IdxOfDay(resp.day_id))
            /\ {rows[k].id : k \in 1..M} = {entries[i].id : i \in IdxOfDay(resp.day_id)}
            /\ \A k \in 1..(M - 1) : rows[k].id < rows[k + 1].id

\* C22: the stored closing balance of a Day is what the last close computed
\* or the last edit set: a request that adds or deletes an entry leaves every
\* Day as it was, and the closing balance of a Day changes only in a step of
\* day_close or day_edit for that Day.
C22_ClosingBalanceFrame ==
    [][/\ (days' # days) =>
            /\ \A id \in 1..MaxDays, f \in BalanceEntryForms :
                  ~day_detail_post(id, f, TRUE)
            /\ \A id \in 1..MaxEntries : ~delete_entry(id, TRUE)
       /\ \A d \in days, e \in days' :
            (d.id = e.id /\ d.cierre_caja # e.cierre_caja) =>
                \/ \E db_ok \in BOOLEAN : day_close(d.id, db_ok)
                \/ \E f \in DayEditForms, db_ok \in BOOLEAN : day_edit(d.id, f, db_ok)]_vars

\* a Day opened with 0 was closed at 1 with one entry; an entry of 2 was then
\* added and the Day still holds the closing balance 1 while its total is 3
C22_Witness ==
    /\ HasFlash(resp, "success") /\ resp.flash.message = "Registro agregado."
    /\ \E d \in days : /\ d.apertura_caja = 0
                       /\ d.cierre_caja = 1
                       /\ total_dia(d.id) = 3

\* C24: the patient groups on the page of a Day partition the entries of the
\* Day: there is one group for each (owner, pet) stored on them, holding the
\* number and the sum of the amounts of the entries that carry it, so that
\* the counts add up to the number of entries of the Day and the totals to
\* the total of the Day.
C24_GroupsPartition ==
    resp.kind = "day_detail" =>
        LET g == resp.patient_groups
            I == IdxOfDay(resp.day_id)
            KeyOf(i) == <<entries[i].tutor, entries[i].mascota>>
            Keys == {KeyOf(i) : i \in I}
            Members(k) == {i \in I : KeyOf(i) = k}
        IN  /\ SumSeq([n \in 1..Len(g) |-> g[n].count]) = Cardinality(I)
            /\ SumSeq([n \in 1..Len(g) |-> g[n].total]) = total_dia(resp.day_id)
            /\ total_dia(resp.day_id) = ExpectedSum(I, Len(entries))
            /\ Len(g) = Cardinality(Keys)
            /\ \A k \in Keys : \E n \in 1..Len(g) :
                  /\ g[n].tutor = OrEmpty(k[1]) /\ g[n].mascota = OrEmpty(k[2])
                  /\ g[n].count = Cardinality(Members(k))
                  /\ g[n].total = ExpectedSum(Members(k), Len(entries))

\* the page of a Day whose two entries belong to two patients, with
\* different totals
C24_Witness ==
    /\ resp.kind = "day_detail"
    /\ Len(resp.patient_groups) = 2
    /\ resp.patient_groups[1].total # resp.patient_groups[2].total
    /\ resp.patient_groups[1].count = 1 /\ resp.patient_groups[2].count = 1

\* C23: on Render (RENDER or RENDER_SERVICE_ID set) the database URI is never
\* a SQLite one: loading the configuration raises when DATABASE_URL is
\* missing, and no value of DATABASE_URL leads to SQLite; elsewhere the
\* default SQLite URI is used when DATABASE_URL is not set.
C23_NoSqliteOnRender ==
    resp.kind = "config" =>
        LET env == resp.environ
            render == Truthy(env.RENDER) \/ Truthy(env.RENDER_SERVICE_ID)
        IN  /\ (render /\ env.DATABASE_URL = Empty) => resp.raised = "RuntimeError"
            /\ (render /\ resp.raised = NoError) =>
                  resp.SQLALCHEMY_DATABASE_URI.scheme # "sqlite"
            /\ (~render /\ env.DATABASE_URL = Empty) =>
                  /\ resp.raised = NoError
                  /\ resp.SQLALCHEMY_DATABASE_URI =
                        Url("sqlite", <<"/", IF env.RUNTIME_DB_DIR = Empty
                                             THEN "/tmp/vetcashflow"
                                             ELSE env.RUNTIME_DB_DIR[1], "app.db">>)

\* C25: an endpoint other than 'login' and 'static' is served only to a
\* session that holds a user_id.  A request without one leaves the store and
\* the session as they are and is answered by the redirect to the login page
\* (or by the login page or a static file, the two open endpoints); the
\* session changes only when logout empties it or a login succeeds, so a
\* session that was logged out stays without user_id until the next login.
C25_LoginGuard ==
    [][/\ session.user_id = Empty =>
            /\ store' = store
            /\ \/ resp' = Redirect("login", 0)
               \/ session' # session
               \/ login_get
               \/ \E password \in Passwords : login_post(password)
               \/ static
       /\ (session' # session) =>
            \/ /\ session.user_id # Empty
               /\ logout
            \/ /\ \E password \in Passwords : login_post(password)
               /\ session'.user_id # Empty
               /\ HasFlash(resp', "success")]_vars

\* a Day was written by the signed-in client, the client logged out, and its
\* next request for a page of the ledger was sent to the login page
C25_Witness ==
    /\ session = Anonymous
    /\ resp = Redirect("login", 0)
    /\ days # {}

====
